---- MODULE Spec2Model ----
(***************************************************************************)
(* Model of seatplan.py: the six document-editing functions of the seat    *)
(* plan tool, applied by a caller that threads the current document from   *)
(* one call to the next.                                                   *)
(*                                                                         *)
(* A Python str is a sequence of one-character strings, so that upper(),   *)
(* startswith(), slicing, the regular expressions of _natural_seat_key and *)
(* the code-point order of < are computed, not assumed.  A dict is a       *)
(* sequence of [k, v] entries without repeated keys, in insertion order.   *)
(* Documents have the shape the functions expect: every section has rows,  *)
(* every row a row_index and seats, every seat a number.  An id is the     *)
(* pair of its prefix letter and its six hex digits.                       *)
(*                                                                         *)
(* The script around the functions is modelled too: the form that builds   *)
(* the seat labels of a new row (variable form), and a session of the two  *)
(* buttons that store a document in session_state (variable session).      *)
(***************************************************************************)
EXTENDS Integers, Sequences, FiniteSets, TLC

VARIABLES doc, last, steps, form, session

vars == <<doc, last, steps, form, session>>

\* Calls a behaviour of Spec makes.
MaxCalls == 1

\* Calls a behaviour of SpecEdit makes, each on the document the last one returned.
MaxSteps == 3

-----------------------------------------------------------------------------
(* Characters and strings *)

UpperLetters ==
    <<"A","B","C","D","E","F","G","H","I","J","K","L","M",
      "N","O","P","Q","R","S","T","U","V","W","X","Y","Z">>

LowerLetters ==
    <<"a","b","c","d","e","f","g","h","i","j","k","l","m",
      "n","o","p","q","r","s","t","u","v","w","x","y","z">>

Digits == <<"0","1","2","3","4","5","6","7","8","9">>

InSeq(seq, c) == \E i \in 1..Len(seq) : seq[i] = c

IndexOf(seq, c) == CHOOSE i \in 1..Len(seq) : seq[i] = c

\* [A-Za-z]
IsAlpha(c) == InSeq(UpperLetters, c) \/ InSeq(LowerLetters, c)

\* \d
IsDigit(c) == InSeq(Digits, c)

\* ord(c) for the characters that occur in labels
Code(c) ==
    IF InSeq(Digits, c) THEN 47 + IndexOf(Digits, c)
    ELSE IF InSeq(UpperLetters, c) THEN 64 + IndexOf(UpperLetters, c)
    ELSE IF InSeq(LowerLetters, c) THEN 96 + IndexOf(LowerLetters, c)
    ELSE CASE c = " " -> 32
           [] c = "(" -> 40
           [] c = ")" -> 41
           [] c = "-" -> 45

\* str.upper() on one character
UpperChar(c) ==
    IF InSeq(LowerLetters, c) THEN UpperLetters[IndexOf(LowerLetters, c)] ELSE c

\* str.upper()
upper(s) == [i \in 1..Len(s) |-> UpperChar(s[i])]

\* str.startswith()
startswith(s, p) == Len(p) <= Len(s) /\ SubSeq(s, 1, Len(p)) = p

\* s[n:]
SliceFrom(s, n) == SubSeq(s, n + 1, Len(s))

\* s < t on Python strings: code-point lexicographic order
StrLess(s, t) ==
    \E i \in 1..(Len(t)) :
        /\ i <= Len(s) + 1
        /\ \A j \in 1..(i - 1) : s[j] = t[j]
        /\ (i = Len(s) + 1 \/ Code(s[i]) < Code(t[i]))

\* int() of a string of decimal digits
RECURSIVE ParseInt(_)
ParseInt(ds) ==
    IF ds = <<>> THEN 0
    ELSE 10 * ParseInt(SubSeq(ds, 1, Len(ds) - 1)) + (IndexOf(Digits, ds[Len(ds)]) - 1)

AllAlpha(s) == \A i \in 1..Len(s) : IsAlpha(s[i])

AllDigits(s) == \A i \in 1..Len(s) : IsDigit(s[i])

-----------------------------------------------------------------------------
(* Natural sort helper *)

\* re.match(r"^([A-Za-z]+)(\d+)$", s): the lengths k of group 1 that match
LettersDigitsSplits(s) ==
    {k \in 1..(Len(s) - 1) :
        AllAlpha(SubSeq(s, 1, k)) /\ AllDigits(SubSeq(s, k + 1, Len(s)))}

\* a key that compares the whole label as text
natural_seat_key_text(s) == [row |-> upper(s), inf |-> TRUE, num |-> 0, s |-> s]

\* The key tuple (row, num, s); inf marks float("inf") in the second place.
_natural_seat_key(s) ==
    IF LettersDigitsSplits(s) # {}
    THEN LET k == CHOOSE k \in LettersDigitsSplits(s) : TRUE
         IN  [row |-> upper(SubSeq(s, 1, k)), inf |-> FALSE,
              num |-> ParseInt(SubSeq(s, k + 1, Len(s))), s |-> s]
    ELSE IF Len(s) > 0 /\ AllDigits(s)
    THEN [row |-> <<>>, inf |-> FALSE, num |-> ParseInt(s), s |-> s]
    ELSE [row |-> upper(s), inf |-> TRUE, num |-> 0, s |-> s]

\* a < b on the second components (int or float("inf"))
NumLess(a, b) ==
    IF a.inf THEN FALSE
    ELSE IF b.inf THEN TRUE
    ELSE a.num < b.num

NumEq(a, b) == (a.inf /\ b.inf) \/ (~a.inf /\ ~b.inf /\ a.num = b.num)

\* a < b on key tuples: the first differing component decides
KeyLess(a, b) ==
    \/ StrLess(a.row, b.row)
    \/ a.row = b.row /\ NumLess(a, b)
    \/ a.row = b.row /\ NumEq(a, b) /\ StrLess(a.s, b.s)

-----------------------------------------------------------------------------
(* sorted(): a stable sort; reverse=True keeps equal elements in their     *)
(* original order too.  less[i][j] is key(seq[i]) < key(seq[j]).           *)

sorted(seq, less, reverse) ==
    LET n == Len(seq)
        Before(j, i) ==
            \/ IF reverse THEN less[i][j] ELSE less[j][i]
            \/ ~less[i][j] /\ ~less[j][i] /\ j < i
        Pos(i) == 1 + Cardinality({j \in 1..n : Before(j, i)})
    IN  [p \in 1..n |-> seq[CHOOSE i \in 1..n : Pos(i) = p]]

\* reversed()
reversed(seq) == [i \in 1..Len(seq) |-> seq[Len(seq) + 1 - i]]

-----------------------------------------------------------------------------
(* dict / OrderedDict *)

Keys(od) == {od[i].k : i \in 1..Len(od)}

KeyIndex(od, key) == CHOOSE i \in 1..Len(od) : od[i].k = key

\* od[key] = value: a present key keeps its place and takes the new value
SetItem(od, key, value) ==
    IF key \in Keys(od)
    THEN [od EXCEPT ![KeyIndex(od, key)].v = value]
    ELSE Append(od, [k |-> key, v |-> value])

\* OrderedDict(pairs), and a run of od[k] = v over pairs
RECURSIVE SetItems(_, _)
SetItems(od, pairs) ==
    IF pairs = <<>> THEN od
    ELSE SetItems(SetItem(od, pairs[1].k, pairs[1].v), Tail(pairs))

-----------------------------------------------------------------------------
(* Outcomes of a call *)

\* a call that returns value ret
Return(ret) == [exc |-> "none", ret |-> ret, deleted |-> 0]

\* seatmap[section_id] on an absent key; the caller keeps the document it had
KeyError(seatmap) == [exc |-> "KeyError", ret |-> seatmap, deleted |-> 0]

\* str "0", the "section start / no anchor" reference
Zero == <<"0">>

-----------------------------------------------------------------------------
(* insert_rows *)

\* the inner loop over seat_labels: seats[seat_id] = {...}, one uuid4 per seat
RECURSIVE BuildSeats(_, _, _, _)
BuildSeats(seat_labels, uuids, default_price, seats) ==
    IF seat_labels = <<>> THEN seats
    ELSE LET seat_id == <<"s", uuids[1]>>
         IN  BuildSeats(Tail(seat_labels), Tail(uuids), default_price,
                 SetItem(seats, seat_id,
                     [id |-> seat_id, number |-> seat_labels[1],
                      price |-> default_price, status |-> "av", handicap |-> "no"]))

\* ordered_pairs: one (row_id, row) per spec; uuids is the stream of
\* uuid4().hex[:6] values in the order the calls are made
RECURSIVE BuildPairs(_, _, _)
BuildPairs(specs, uuids, default_price) ==
    IF specs = <<>> THEN <<>>
    ELSE LET spec == specs[1]
             n == Len(spec.labels)
             row_id == <<"r", uuids[1]>>
             seats == BuildSeats(spec.labels, SubSeq(uuids, 2, n + 1), default_price, <<>>)
         IN  <<[k |-> row_id,
                v |-> [seats |-> seats, row_index |-> upper(spec.index),
                       row_price |-> default_price, row_id |-> row_id]]>>
             \o BuildPairs(Tail(specs), SubSeq(uuids, n + 2, Len(uuids)), default_price)

\* number of uuid4 calls one insert_rows call makes: one per row, one per seat
RECURSIVE NumUuids(_)
NumUuids(new_rows) ==
    IF new_rows = <<>> THEN 0
    ELSE 1 + Len(new_rows[1].labels) + NumUuids(Tail(new_rows))

\* the scan of the existing rows
RECURSIVE InsertLoop(_, _, _, _, _, _)
InsertLoop(rows_items, ref_upper, position, ordered_pairs, updated_rows, inserted) ==
    IF rows_items = <<>> THEN [updated_rows |-> updated_rows, inserted |-> inserted]
    ELSE LET rid == rows_items[1].k
             rdata == rows_items[1].v
             KeepAnchor(od) == IF ref_upper # Zero THEN SetItem(od, rid, rdata) ELSE od
         IN  IF ~inserted /\ (ref_upper = Zero \/ upper(rdata.row_index) = ref_upper)
             THEN InsertLoop(Tail(rows_items), ref_upper, position, ordered_pairs,
                      IF position = "above"
                      THEN KeepAnchor(SetItems(updated_rows, ordered_pairs))
                      ELSE SetItems(KeepAnchor(updated_rows), ordered_pairs),
                      TRUE)
             ELSE InsertLoop(Tail(rows_items), ref_upper, position, ordered_pairs,
                      SetItem(updated_rows, rid, rdata), inserted)

IndexLess(x, y) == StrLess(upper(x.index), upper(y.index))

\* anchor_exists
AnchorExists(rows_items, ref_upper) ==
    \E i \in 1..Len(rows_items) : upper(rows_items[i].v.row_index) = ref_upper

\* new_rows_sorted: sorted by label without an anchor, the caller's order with one
NewRowsSorted(rows_items, ref_upper, new_rows, position) ==
    IF rows_items = <<>> \/ ref_upper = Zero \/ ~AnchorExists(rows_items, ref_upper)
    THEN sorted(new_rows,
                [i \in 1..Len(new_rows) |->
                    [j \in 1..Len(new_rows) |-> IndexLess(new_rows[i], new_rows[j])]],
                position = "above")
    ELSE new_rows

\* updated_rows: the scan, then the prepend or append when nothing was inserted
UpdatedRows(rows_items, ref_upper, position, ordered_pairs) ==
    LET scan == InsertLoop(rows_items, ref_upper, position, ordered_pairs, <<>>, FALSE)
    IN  IF scan.inserted THEN scan.updated_rows
        ELSE IF position = "above"
             THEN SetItems(<<>>, SetItems(<<>>, ordered_pairs) \o scan.updated_rows)
             ELSE SetItems(scan.updated_rows, ordered_pairs)

\* the body of insert_rows once the section is found
InsertInto(seatmap, section_id, ref_row_index, new_rows, position, default_price, uuids) ==
    LET section == seatmap[section_id]
        rows_items == section.rows
        ref_upper == upper(ref_row_index)
        new_rows_sorted == NewRowsSorted(rows_items, ref_upper, new_rows, position)
        ordered_pairs == BuildPairs(new_rows_sorted, uuids, default_price)
        updated_rows == UpdatedRows(rows_items, ref_upper, position, ordered_pairs)
    IN  [seatmap EXCEPT ![section_id] = [section EXCEPT !.rows = updated_rows]]

\* insert_rows that looks the section up with .get() and returns the input
\* when it is absent, as the other five functions do
insert_rows_get(seatmap, section_id, ref_row_index, new_rows, position, default_price, uuids) ==
    IF section_id \notin DOMAIN seatmap THEN Return(seatmap)
    ELSE Return(InsertInto(seatmap, section_id, ref_row_index, new_rows, position,
                           default_price, uuids))

\* insert_rows that builds the result from the target section alone instead of
\* from a copy of the seatmap
insert_rows_section_only(seatmap, section_id, ref_row_index, new_rows, position, default_price, uuids) ==
    IF section_id \notin DOMAIN seatmap THEN KeyError(seatmap)
    ELSE LET full == InsertInto(seatmap, section_id, ref_row_index, new_rows, position,
                                default_price, uuids)
         IN  Return([s \in {section_id} |-> full[s]])

insert_rows(seatmap, section_id, ref_row_index, new_rows, position, default_price, uuids) ==
    IF section_id \notin DOMAIN seatmap THEN KeyError(seatmap)
    ELSE Return(InsertInto(seatmap, section_id, ref_row_index, new_rows, position,
                           default_price, uuids))

-----------------------------------------------------------------------------
(* relabel_rows *)

\* the seat test without .upper(): a case-sensitive startswith
RelabelSeat_case_sensitive(sdata, original_row, new_row_label) ==
    LET old == sdata.number
    IN  IF startswith(old, original_row)
        THEN [sdata EXCEPT !.number = new_row_label \o SliceFrom(old, Len(original_row))]
        ELSE sdata

RelabelSeat(sdata, original_row, new_row_label) ==
    LET old == sdata.number
    IN  IF startswith(upper(old), upper(original_row))
        THEN [sdata EXCEPT !.number = new_row_label \o SliceFrom(old, Len(original_row))]
        ELSE sdata

RelabelRow(rdata, targets_upper, new_prefix) ==
    LET original_row == rdata.row_index
        new_row_label == new_prefix \o original_row
    IN  IF upper(original_row) \in targets_upper
        THEN [rdata EXCEPT
                 !.row_index = new_row_label,
                 !.seats = [i \in 1..Len(rdata.seats) |->
                               [k |-> rdata.seats[i].k,
                                v |-> RelabelSeat(rdata.seats[i].v, original_row, new_row_label)]]]
        ELSE rdata

relabel_rows(seatmap, section_id, target_row_letters, new_prefix) ==
    IF target_row_letters = <<>> THEN Return(seatmap)
    ELSE IF section_id \notin DOMAIN seatmap THEN Return(seatmap)
    ELSE
    LET targets_upper == {upper(target_row_letters[i]) : i \in 1..Len(target_row_letters)}
        section == seatmap[section_id]
        new_rows == [i \in 1..Len(section.rows) |->
                        [k |-> section.rows[i].k,
                         v |-> RelabelRow(section.rows[i].v, targets_upper, new_prefix)]]
    IN  Return([seatmap EXCEPT ![section_id] = [section EXCEPT !.rows = new_rows]])

-----------------------------------------------------------------------------
(* update_section_meta; an optional argument is <<>> for None, <<x>> for x *)

None == <<>>

\* update_section_meta testing `if new_name:` and `if new_align:`
update_section_meta_truthy(seatmap, section_id, new_name, new_align) ==
    IF section_id \notin DOMAIN seatmap THEN Return(seatmap)
    ELSE
    LET section == seatmap[section_id]
        named == IF new_name # None /\ new_name[1] # ""
                 THEN [section EXCEPT !.section_name = new_name[1]]
                 ELSE section
        aligned == IF new_align # None /\ new_align[1] # ""
                   THEN [named EXCEPT !.align = new_align[1]]
                   ELSE named
    IN  Return([seatmap EXCEPT ![section_id] = aligned])

update_section_meta(seatmap, section_id, new_name, new_align) ==
    IF section_id \notin DOMAIN seatmap THEN Return(seatmap)
    ELSE
    LET section == seatmap[section_id]
        named == IF new_name # None THEN [section EXCEPT !.section_name = new_name[1]]
                 ELSE section
        aligned == IF new_align # None THEN [named EXCEPT !.align = new_align[1]]
                   ELSE named
    IN  Return([seatmap EXCEPT ![section_id] = aligned])

-----------------------------------------------------------------------------
(* Direction helpers *)

reverse_section_rows_order(seatmap, section_id) ==
    IF section_id \notin DOMAIN seatmap THEN Return(seatmap)
    ELSE
    LET section == seatmap[section_id]
        reversed_rows == SetItems(<<>>, reversed(section.rows))
    IN  Return([seatmap EXCEPT ![section_id] = [section EXCEPT !.rows = reversed_rows]])

SeatLess(a, b) == KeyLess(_natural_seat_key(a.v.number), _natural_seat_key(b.v.number))

ReverseRowSeats(rdata, targets) ==
    IF upper(rdata.row_index) \in targets
    THEN LET seats_items == rdata.seats
             seats_items_sorted ==
                 sorted(seats_items,
                     [i \in 1..Len(seats_items) |->
                         [j \in 1..Len(seats_items) |-> SeatLess(seats_items[i], seats_items[j])]],
                     FALSE)
         IN  [rdata EXCEPT !.seats = SetItems(<<>>, reversed(seats_items_sorted))]
    ELSE rdata

reverse_section_seat_order_selective(seatmap, section_id, rows_to_reverse) ==
    IF rows_to_reverse = <<>> THEN Return(seatmap)
    ELSE IF section_id \notin DOMAIN seatmap THEN Return(seatmap)
    ELSE
    LET targets == {upper(rows_to_reverse[i]) : i \in 1..Len(rows_to_reverse)}
        section == seatmap[section_id]
        new_rows == [i \in 1..Len(section.rows) |->
                        [k |-> section.rows[i].k,
                         v |-> ReverseRowSeats(section.rows[i].v, targets)]]
    IN  Return([seatmap EXCEPT ![section_id] = [section EXCEPT !.rows = new_rows]])

-----------------------------------------------------------------------------
(* delete_rows_with_exactly_one_seat *)

\* the loop without its `continue`: a counted row is kept
KeptRows_no_continue(rows) == rows

\* the rows the loop keeps, in order
RECURSIVE KeptRows(_)
KeptRows(rows) ==
    IF rows = <<>> THEN <<>>
    ELSE IF Len(rows[1].v.seats) = 1 THEN KeptRows(Tail(rows))
    ELSE <<rows[1]>> \o KeptRows(Tail(rows))

\* the value of `deleted` after the loop
RECURSIVE DeletedCount(_)
DeletedCount(rows) ==
    IF rows = <<>> THEN 0
    ELSE (IF Len(rows[1].v.seats) = 1 THEN 1 ELSE 0) + DeletedCount(Tail(rows))

delete_rows_with_exactly_one_seat(seatmap, section_id) ==
    IF section_id \notin DOMAIN seatmap THEN Return(seatmap)
    ELSE
    LET section == seatmap[section_id]
    IN  [exc |-> "none",
         ret |-> [seatmap EXCEPT ![section_id] = [section EXCEPT !.rows = KeptRows(section.rows)]],
         deleted |-> DeletedCount(section.rows)]

-----------------------------------------------------------------------------
(* The "Add rows" form: the seat labels of one new row *)

\* f"{n}" of a positive int
RECURSIVE FormatInt(_)
FormatInt(n) ==
    IF n < 10 THEN <<Digits[n + 1]>>
    ELSE FormatInt(n \div 10) \o <<Digits[(n % 10) + 1]>>

\* seat_numbers: range(first, last + 1), or range(first, last - 1, -1)
seat_numbers(first, last_seat) ==
    IF first <= last_seat
    THEN [i \in 1..(last_seat - first + 1) |-> first + (i - 1)]
    ELSE [i \in 1..(first - last_seat + 1) |-> first - (i - 1)]

\* base_labels before any anomaly is inserted
base_labels(letter, numbers) ==
    [i \in 1..Len(numbers) |-> upper(letter) \o FormatInt(numbers[i])]

HasLabel(typed_anomaly) == typed_anomaly.ano_label # <<>>

\* anomalies: the (ano_between, ano_label) pairs typed with a label
anomalies(typed) == SelectSeq(typed, HasLabel)

\* list.index(x), counted from 0
ListIndex(list, x) ==
    (CHOOSE i \in 1..Len(list) : list[i] = x /\ \A j \in 1..(i - 1) : list[j] # x) - 1

\* list.insert(index, x), index counted from 0
ListInsert(list, index, x) ==
    LET i == IF index > Len(list) THEN Len(list) ELSE index
    IN  SubSeq(list, 1, i) \o <<x>> \o SubSeq(list, i + 1, Len(list))

\* the loop over the anomalies, highest ano_between first; insertion_index is
\* read off seat_numbers, which no insertion changes
RECURSIVE InsertAnomalies(_, _, _)
InsertAnomalies(todo, numbers, labels) ==
    IF todo = <<>> THEN labels
    ELSE IF InSeq(numbers, todo[1].ano_between)
    THEN LET insertion_index == ListIndex(numbers, todo[1].ano_between) + 1
         IN  InsertAnomalies(Tail(todo), numbers,
                 ListInsert(labels, insertion_index, todo[1].ano_label))
    ELSE InsertAnomalies(Tail(todo), numbers, labels)

\* base_labels as appended to new_rows
SeatLabels(letter, first, last_seat, typed) ==
    LET numbers == seat_numbers(first, last_seat)
        kept == anomalies(typed)
        by_position ==
            sorted(kept,
                [i \in 1..Len(kept) |->
                    [j \in 1..Len(kept) |-> kept[i].ano_between < kept[j].ano_between]],
                TRUE)
    IN  InsertAnomalies(by_position, numbers, base_labels(letter, numbers))

\* new_rows after the form of one row; a row without a label is not added
FormRows(letter, first, last_seat, typed) ==
    IF letter = <<>> THEN <<>>
    ELSE <<[index |-> upper(letter),
            labels |-> SeatLabels(letter, first, last_seat, typed)]>>

\* anomalies one row's form takes here (the widget allows up to 5)
MaxAnomalies == 3

LetterArgs == {<<>>, <<"a">>}

SeatArgs == {1, 3, 8, 10}

\* the widget offers min(first, last) .. max(first, last) - 1; a value typed
\* for an earlier range may lie outside the range of the row as it is now
BetweenArgs == {1, 2, 9}

AnoLabelArgs == {<<>>, <<"X">>, <<"Y">>}

TypedAnomalies == [ano_between : BetweenArgs, ano_label : AnoLabelArgs]

TypedArgs == UNION {[1..n -> TypedAnomalies] : n \in 0..MaxAnomalies}

\* the widgets of one row as they are first drawn, nothing built yet
NoForm ==
    [letter |-> <<>>, first |-> 1, last |-> 1, typed |-> <<>>,
     new_rows |-> <<>>, built |-> FALSE]

-----------------------------------------------------------------------------
(* Documents a session starts from *)

Seat(id, number) ==
    [k |-> id,
     v |-> [id |-> id, number |-> number, price |-> "85", status |-> "av", handicap |-> "no"]]

Row(row_id, row_index, seats) ==
    [k |-> row_id,
     v |-> [seats |-> seats, row_index |-> row_index, row_price |-> "85", row_id |-> row_id]]

Section(section_name, align, rows) ==
    [section_name |-> section_name, align |-> align, price |-> "85", rows |-> rows]

Circle ==
    Section("Circle", "l",
        <<Row(<<"r", "0000c1">>, <<"X">>, <<Seat(<<"s", "0000c1">>, <<"X","1">>)>>)>>)

\* rows A, B, C; row A's seats are not in natural order, and one seat of row C
\* does not carry the row label
DocStalls ==
    [s1 |-> Section("Stalls", "def",
              <<Row(<<"r", "0000a1">>, <<"A">>,
                    <<Seat(<<"s", "0000a1">>, <<"A","1">>),
                      Seat(<<"s", "0000a2">>, <<"A","1","0">>),
                      Seat(<<"s", "0000a3">>, <<"A","2">>)>>),
                Row(<<"r", "0000b1">>, <<"B">>,
                    <<Seat(<<"s", "0000b1">>, <<"B","1">>)>>),
                Row(<<"r", "0000c1">>, <<"C">>,
                    <<Seat(<<"s", "0000c2">>, <<"c","1">>),
                      Seat(<<"s", "0000c3">>, <<"X","1">>)>>)>>),
     s2 |-> Circle]

\* a document this tool wrote earlier: two rows share the label B up to case,
\* and row T carries generated ids
DocEdited ==
    [s1 |-> Section("Stalls", "r",
              <<Row(<<"r", "0000b1">>, <<"b">>,
                    <<Seat(<<"s", "0000b1">>, <<"b","2">>),
                      Seat(<<"s", "0000b2">>, <<"B","1">>)>>),
                Row(<<"r", "a3f09c">>, <<"T">>,
                    <<Seat(<<"s", "a3f09c">>, <<"T","1">>),
                      Seat(<<"s", "7be112">>, <<"T","2">>)>>),
                Row(<<"r", "0000b2">>, <<"B">>,
                    <<Seat(<<"s", "0000b3">>, <<"B","1">>)>>)>>),
     s2 |-> Circle]

\* rows with seat counts 1, 1, 2, 1
DocCounts ==
    [s1 |-> Section("Stalls", "l",
              <<Row(<<"r", "0000d1">>, <<"D">>, <<Seat(<<"s", "0000d1">>, <<"D","1">>)>>),
                Row(<<"r", "0000e1">>, <<"E">>, <<Seat(<<"s", "0000e1">>, <<"E","1">>)>>),
                Row(<<"r", "0000f1">>, <<"F">>,
                    <<Seat(<<"s", "0000f1">>, <<"F","1">>),
                      Seat(<<"s", "0000f2">>, <<"F","2">>)>>),
                Row(<<"r", "0000a1">>, <<"A">>, <<Seat(<<"s", "0000a1">>, <<"A","1">>)>>)>>)]

\* a section that has no rows yet
DocEmpty ==
    [s1 |-> Section("Stalls", "def", <<>>), s2 |-> Circle]

InitDocs == {DocStalls, DocEdited, DocCounts, DocEmpty}

-----------------------------------------------------------------------------
(* Arguments the caller passes *)

\* "s9" is the id of no section
SectionArgs == {"s1", "s9"}

RefArgs == {Zero, <<"b">>, <<"Z">>}

PositionArgs == {"above", "below"}

RowM == [index |-> <<"M">>, labels |-> <<<<"M","1">>>>]

RowT == [index |-> <<"T">>, labels |-> <<<<"T","1">>, <<"T","2">>>>]

RowP == [index |-> <<"p">>, labels |-> <<<<"P","1">>>>]

NewRowsArgs == {<<>>, <<RowT>>, <<RowM, RowP>>, <<RowP, RowM>>}

\* values uuid4().hex[:6] takes
Uuid6 == {"a3f09c", "7be112"}

\* the last one is row A's label once it carries the prefix
LabelListArgs ==
    {<<>>, <<<<"a">>>>, <<<<"B">>, <<"c">>>>, <<<<"Z">>>>,
     <<<<"(","R","V",")"," ","A">>>>}

PrefixArgs == {<<"(","R","V",")"," ">>}

NameArgs == {None, <<"">>, <<"Stalls Left">>}

AlignArgs == {None, <<"">>, <<"r">>}

-----------------------------------------------------------------------------
(* The script: section choice, the two buttons, session_state *)

\* session_state before any button was pressed: no "updated_map"
NoSession == [has_updated_map |-> FALSE, updated_map |-> <<>>]

\* re.search(r"([A-Za-z]+)$", s): the letters s ends with
TrailingLetters(s) ==
    LET starts == {k \in 1..Len(s) : AllAlpha(SubSeq(s, k, Len(s)))}
    IN  IF starts = {} THEN <<>>
        ELSE SubSeq(s, CHOOSE k \in starts : \A j \in starts : k <= j, Len(s))

\* re.search(r"([A-Za-z]+)", s): the first run of letters in s
FirstLetters(s) ==
    LET at == {k \in 1..Len(s) : IsAlpha(s[k])}
    IN  IF at = {} THEN <<>>
        ELSE LET b == CHOOSE k \in at : \A j \in at : k <= j
                 ends == {e \in b..Len(s) : AllAlpha(SubSeq(s, b, e))}
             IN  SubSeq(s, b, CHOOSE e \in ends : \A j \in ends : j <= e)

\* the match rules of the section search
RowMatchesRef(rdata, ref_row_letter) ==
    LET ref_full == upper(ref_row_letter)
        base_letters == upper(FirstLetters(ref_row_letter))
        row_idx_full == upper(rdata.row_index)
        row_idx_letters == upper(TrailingLetters(rdata.row_index))
    IN  \/ ref_full = Zero
        \/ base_letters # <<>> /\ row_idx_letters = base_letters
        \/ ref_full # <<>> /\ base_letters = <<>> /\ row_idx_full = ref_full

\* the section ids of matched_rows: the sections with a matching row, or
\* every section that has rows when none matches
MatchedSections(seatmap, ref_row_letter) ==
    LET with_rows == {sid \in DOMAIN seatmap : seatmap[sid].rows # <<>>}
        matched == {sid \in with_rows :
                       \E i \in 1..Len(seatmap[sid].rows) :
                           RowMatchesRef(seatmap[sid].rows[i].v, ref_row_letter)}
    IN  IF matched # {} THEN matched ELSE with_rows

\* edited_align when the selectbox is left alone: the current code, or "def"
\* when the current value is none of the options
SelectedAlign(current_align) ==
    IF current_align \in {"l", "r", "def"} THEN current_align ELSE "def"

\* rows_in_section: the label of each row, in row order
RowLabels(seatmap, section_id) ==
    [i \in 1..Len(seatmap[section_id].rows) |-> seatmap[section_id].rows[i].v.row_index]

\* the body of the "Update Plan" handler on seatmap, with the form values a
UpdatePlan(seatmap, a) ==
    LET inserted ==
            IF a.new_rows # <<>>
            THEN insert_rows(seatmap, a.section_id, a.ref_row_index, a.new_rows,
                             a.position, a.default_price, a.uuids)
            ELSE Return(seatmap)
    IN  IF inserted.exc # "none" THEN [inserted EXCEPT !.ret = seatmap]
        ELSE
        LET meta == update_section_meta(inserted.ret, a.section_id,
                                        <<a.edited_name>>, <<a.edited_align>>)
            rows == IF a.do_reverse_rows
                    THEN reverse_section_rows_order(meta.ret, a.section_id)
                    ELSE meta
            seats == IF a.do_reverse_seats_master
                     THEN reverse_section_seat_order_selective(rows.ret, a.section_id,
                                                               a.rows_selected)
                     ELSE rows
        IN  IF a.do_delete_lonely_first
            THEN delete_rows_with_exactly_one_seat(seats.ret, a.section_id)
            ELSE seats

\* button presses of one session
MaxRuns == 2

\* reference row labels typed in a session
SessionRefArgs == {Zero, <<"b">>}

\* row labels typed into the one row form of "Add rows"
SessionLetterArgs == {<<>>, <<"m">>}

\* names typed over the current one
EditedNameArgs == {"Stalls Left"}

\* the three checkboxes applied on save: none ticked, or one of them
ToggleArgs ==
    {t \in [do_reverse_rows : BOOLEAN, do_reverse_seats_master : BOOLEAN,
            do_delete_lonely_first : BOOLEAN] :
        Cardinality({f \in {"do_reverse_rows", "do_reverse_seats_master",
                            "do_delete_lonely_first"} : t[f]}) <= 1}

-----------------------------------------------------------------------------
(* The caller: one action per library function *)

NoArgs ==
    [section_id |-> "", ref_row_index |-> <<>>, new_rows |-> <<>>, position |-> "",
     default_price |-> "", uuids |-> <<>>, labels |-> <<>>, new_prefix |-> <<>>,
     new_name |-> None, new_align |-> None]

\* the call just made: its name, its input document, its arguments, its outcome
Call(op, args, res) ==
    [op |-> op, seatmap |-> doc, args |-> args,
     exc |-> res.exc, ret |-> res.ret, deleted |-> res.deleted]

Init ==
    /\ doc \in InitDocs
    /\ last = [op |-> "none", seatmap |-> doc, args |-> NoArgs,
               exc |-> "none", ret |-> doc, deleted |-> 0]
    /\ steps = 0
    /\ form = NoForm
    /\ session = NoSession

Thread(op, args, res) ==
    /\ last' = Call(op, args, res)
    /\ doc' = res.ret
    /\ steps' = steps + 1
    /\ UNCHANGED <<form, session>>

InsertRows ==
    \E section_id \in SectionArgs, ref_row_index \in RefArgs,
          new_rows \in NewRowsArgs, position \in PositionArgs :
         \E uuids \in [1..(IF section_id \in DOMAIN doc THEN NumUuids(new_rows) ELSE 0) -> Uuid6] :
            Thread("insert_rows",
                   [NoArgs EXCEPT !.section_id = section_id, !.ref_row_index = ref_row_index,
                                  !.new_rows = new_rows, !.position = position,
                                  !.default_price = "85", !.uuids = uuids],
                   insert_rows(doc, section_id, ref_row_index, new_rows, position, "85", uuids))

RelabelRows ==
    \E section_id \in SectionArgs, target_row_letters \in LabelListArgs,
          new_prefix \in PrefixArgs :
            Thread("relabel_rows",
                   [NoArgs EXCEPT !.section_id = section_id, !.labels = target_row_letters,
                                  !.new_prefix = new_prefix],
                   relabel_rows(doc, section_id, target_row_letters, new_prefix))

UpdateSectionMeta ==
    \E section_id \in SectionArgs, new_name \in NameArgs, new_align \in AlignArgs :
            Thread("update_section_meta",
                   [NoArgs EXCEPT !.section_id = section_id, !.new_name = new_name,
                                  !.new_align = new_align],
                   update_section_meta(doc, section_id, new_name, new_align))

ReverseRows ==
    \E section_id \in SectionArgs :
            Thread("reverse_section_rows_order",
                   [NoArgs EXCEPT !.section_id = section_id],
                   reverse_section_rows_order(doc, section_id))

ReverseSeats ==
    \E section_id \in SectionArgs, rows_to_reverse \in LabelListArgs :
            Thread("reverse_section_seat_order_selective",
                   [NoArgs EXCEPT !.section_id = section_id, !.labels = rows_to_reverse],
                   reverse_section_seat_order_selective(doc, section_id, rows_to_reverse))

DeleteRows ==
    \E section_id \in SectionArgs :
            Thread("delete_rows_with_exactly_one_seat",
                   [NoArgs EXCEPT !.section_id = section_id],
                   delete_rows_with_exactly_one_seat(doc, section_id))

\* Any of the six functions, called on a starting document.
Next ==
    \/ steps < MaxCalls /\ InsertRows
    \/ steps < MaxCalls /\ RelabelRows
    \/ steps < MaxCalls /\ UpdateSectionMeta
    \/ steps < MaxCalls /\ ReverseRows
    \/ steps < MaxCalls /\ ReverseSeats
    \/ steps < MaxCalls /\ DeleteRows

Spec == Init /\ [][Next]_vars

\* The functions that edit the rows a document has, called one after another.
NextEdit ==
    \/ steps < MaxSteps /\ RelabelRows
    \/ steps < MaxSteps /\ UpdateSectionMeta
    \/ steps < MaxSteps /\ ReverseRows
    \/ steps < MaxSteps /\ ReverseSeats
    \/ steps < MaxSteps /\ DeleteRows

SpecEdit == Init /\ [][NextEdit]_vars

\* The form of one new row, filled in and then run.
InitLabels ==
    /\ doc = DocEmpty
    /\ last = [op |-> "none", seatmap |-> doc, args |-> NoArgs,
               exc |-> "none", ret |-> doc, deleted |-> 0]
    /\ steps = 0
    /\ session = NoSession
    /\ form \in [letter : LetterArgs, first : SeatArgs, last : SeatArgs,
                 typed : TypedArgs, new_rows : {<<>>}, built : {FALSE}]

BuildRow ==
    /\ ~form.built
    /\ form' = [form EXCEPT
                   !.new_rows = FormRows(form.letter, form.first, form.last, form.typed),
                   !.built = TRUE]
    /\ UNCHANGED <<doc, last, steps, session>>

NextLabels == BuildRow

SpecLabels == InitLabels /\ [][NextLabels]_vars

\* A session: a file is uploaded, then buttons are pressed.  Every press
\* reruns the script, which loads the uploaded file into seatmap again.
InitSession ==
    /\ doc \in InitDocs
    /\ last = [op |-> "none", seatmap |-> doc, args |-> NoArgs,
               exc |-> "none", ret |-> doc, deleted |-> 0, stored |-> NoSession]
    /\ steps = 0
    /\ form = NoForm
    /\ session = NoSession

\* the run of a handler: the seatmap it started from, what it returned, and
\* what session_state held when it started; a handler that raised stores nothing
Rerun(op, args, res) ==
    /\ last' = [op |-> op, seatmap |-> doc, args |-> args, exc |-> res.exc,
                ret |-> res.ret, deleted |-> res.deleted, stored |-> session]
    /\ session' = IF res.exc = "none"
                  THEN [has_updated_map |-> TRUE, updated_map |-> res.ret]
                  ELSE session
    /\ steps' = steps + 1
    /\ UNCHANGED <<doc, form>>

\* "Apply relabel to selected rows"; selected_rows is picked from the labels
\* of the section
ClickRelabel ==
    \E ref_row_letter \in SessionRefArgs :
      \E section_id \in MatchedSections(doc, ref_row_letter) :
        \E selected_rows \in {<<>>} \cup {<<RowLabels(doc, section_id)[i]>> :
                                            i \in 1..Len(doc[section_id].rows)},
           new_prefix \in PrefixArgs :
            Rerun("relabel",
                  [NoArgs EXCEPT !.section_id = section_id,
                                 !.ref_row_index = ref_row_letter,
                                 !.labels = selected_rows, !.new_prefix = new_prefix],
                  relabel_rows(doc, section_id, selected_rows, new_prefix))

\* "Update Plan"; the row form keeps its first and last seat and has no
\* anomalies, the alignment stays as the selectbox shows it, every row stays
\* ticked for the seat reversal
ClickUpdatePlan ==
    \E ref_row_letter \in SessionRefArgs, letter \in SessionLetterArgs,
       position \in PositionArgs, toggles \in ToggleArgs :
      \E section_id \in MatchedSections(doc, ref_row_letter) :
        \E edited_name \in {doc[section_id].section_name} \cup EditedNameArgs,
           edited_align \in {SelectedAlign(doc[section_id].align)} :
          LET new_rows == FormRows(letter, NoForm.first, NoForm.last, NoForm.typed)
          IN  \E uuids \in [1..NumUuids(new_rows) -> Uuid6] :
                LET a == [section_id |-> section_id, ref_row_index |-> ref_row_letter,
                          new_rows |-> new_rows, position |-> position,
                          default_price |-> doc[section_id].price, uuids |-> uuids,
                          edited_name |-> edited_name, edited_align |-> edited_align,
                          do_reverse_rows |-> toggles.do_reverse_rows,
                          do_reverse_seats_master |-> toggles.do_reverse_seats_master,
                          rows_selected |->
                              IF toggles.do_reverse_seats_master
                              THEN RowLabels(doc, section_id) ELSE <<>>,
                          do_delete_lonely_first |-> toggles.do_delete_lonely_first]
                IN  Rerun("update_plan", a, UpdatePlan(doc, a))

NextSession ==
    \/ steps < MaxRuns /\ ClickRelabel
    \/ steps < MaxRuns /\ ClickUpdatePlan

SpecSession == InitSession /\ [][NextSession]_vars

-----------------------------------------------------------------------------
(* What the properties read from the call just made *)

Present == last.args.section_id \in DOMAIN last.seatmap

Returned(op) == last.op = op /\ last.exc = "none" /\ Present

InRows == last.seatmap[last.args.section_id].rows

OutRows == last.ret[last.args.section_id].rows

Entries(od) == {od[i] : i \in 1..Len(od)}

EqIgnoreCase(a, b) == upper(a) = upper(b)

\* everything but the rows of the target section is as it was
OnlyRowsChange ==
    /\ DOMAIN last.ret = DOMAIN last.seatmap
    /\ \A s \in DOMAIN last.seatmap \ {last.args.section_id} : last.ret[s] = last.seatmap[s]
    /\ [last.ret[last.args.section_id] EXCEPT !.rows = <<>>]
         = [last.seatmap[last.args.section_id] EXCEPT !.rows = <<>>]

\* every row id and seat id of a document
AllIds(seatmap) ==
    UNION {{seatmap[s].rows[i].k : i \in 1..Len(seatmap[s].rows)}
           \cup UNION {Keys(seatmap[s].rows[i].v.seats) : i \in 1..Len(seatmap[s].rows)}
           : s \in DOMAIN seatmap}

\* the ids a call generates, in the order of its uuid4 calls
RECURSIVE GeneratedIds(_, _)
GeneratedIds(specs, uuids) ==
    IF specs = <<>> THEN <<>>
    ELSE LET n == Len(specs[1].labels)
         IN  <<<<"r", uuids[1]>>>>
             \o [j \in 1..n |-> <<"s", uuids[j + 1]>>]
             \o GeneratedIds(Tail(specs), SubSeq(uuids, n + 2, Len(uuids)))

IdsOfCall ==
    GeneratedIds(NewRowsSorted(InRows, upper(last.args.ref_row_index),
                               last.args.new_rows, last.args.position),
                 last.args.uuids)

\* every id the call generated is new to the document and to the call
FreshDraws ==
    /\ \A p \in 1..Len(IdsOfCall) : IdsOfCall[p] \notin AllIds(last.seatmap)
    /\ \A p, q \in 1..Len(IdsOfCall) : p # q => IdsOfCall[p] # IdsOfCall[q]

\* the first row the reference matches, 0 when there is none
FirstMatch ==
    LET hits == {i \in 1..Len(InRows) :
                    EqIgnoreCase(InRows[i].v.row_index, last.args.ref_row_index)}
    IN  IF hits = {} THEN 0 ELSE CHOOSE i \in hits : \A j \in hits : i <= j

\* block holds one row per spec of new_rows, in the order p of the specs
BlockOf(block, p) ==
    /\ Len(block) = Len(last.args.new_rows)
    /\ \A i \in 1..Len(block) :
          block[i].v.row_index = upper(last.args.new_rows[p[i]].index)

\* ... with the labels descending (down) or ascending
SortedBlock(block, down) ==
    /\ \E p \in Permutations(1..Len(last.args.new_rows)) : BlockOf(block, p)
    /\ \A i, j \in 1..Len(block) :
          i < j => IF down THEN ~StrLess(block[i].v.row_index, block[j].v.row_index)
                   ELSE ~StrLess(block[j].v.row_index, block[i].v.row_index)

-----------------------------------------------------------------------------
(* Properties of insert_rows *)

\* C1: with the reference "0" or a reference no row matches, the result is the
\* new rows, sorted by label descending, followed by all existing rows
\* (above), or all existing rows followed by the new rows, sorted ascending
\* (below); no existing row is dropped or moved.  Stated for the calls whose
\* generated ids are all new, so that only the placement is in question.
C1_BoundaryInsertKeepsRows ==
    (Returned("insert_rows") /\ FreshDraws
       /\ (last.args.ref_row_index = Zero \/ FirstMatch = 0))
    => LET n == Len(last.args.new_rows)
           m == Len(InRows)
       IN  /\ Len(OutRows) = n + m
           /\ IF last.args.position = "above"
              THEN /\ SortedBlock(SubSeq(OutRows, 1, n), TRUE)
                   /\ SubSeq(OutRows, n + 1, n + m) = InRows
              ELSE /\ SubSeq(OutRows, 1, m) = InRows
                   /\ SortedBlock(SubSeq(OutRows, m + 1, m + n), FALSE)

\* the new rows sit as one block, in the caller's order, right before (above)
\* or right after (below) the first row the reference matches
AnchoredPlacement ==
    LET n == Len(last.args.new_rows)
        m == Len(InRows)
        a == IF last.args.position = "above" THEN FirstMatch - 1 ELSE FirstMatch
    IN  /\ Len(OutRows) = n + m
        /\ SubSeq(OutRows, 1, a) = SubSeq(InRows, 1, a)
        /\ BlockOf(SubSeq(OutRows, a + 1, a + n), [i \in 1..n |-> i])
        /\ SubSeq(OutRows, a + n + 1, n + m) = SubSeq(InRows, a + 1, m)

\* C2: with a reference other than "0" that some row matches, the new rows
\* appear once, as one block in the caller's order, immediately before or
\* after the first matching row, and every existing row keeps its place.
C2_AnchoredInsert ==
    (Returned("insert_rows") /\ last.args.ref_row_index # Zero /\ FirstMatch # 0)
    => AnchoredPlacement

\* The anchored placement holds of the calls whose generated ids are all new.
AnchoredInsertWithFreshIds ==
    (Returned("insert_rows") /\ FreshDraws
       /\ last.args.ref_row_index # Zero /\ FirstMatch # 0)
    => AnchoredPlacement

\* C3: every row id and seat id an insertion creates differs from every id
\* the document had before the call and from every other id the call creates.
C3_GeneratedIdsUnique ==
    Returned("insert_rows") => FreshDraws

-----------------------------------------------------------------------------
(* Properties of all six functions *)

\* C5 as claimed: with a section_id that is no key of the seatmap, each of the
\* six functions fails with a lookup error.
C5_EveryFunctionRaises ==
    (last.op # "none" /\ ~Present) => last.exc = "KeyError"

\* C5, amended: with a section_id that is no key of the seatmap, insert_rows
\* fails with KeyError and the caller's document stays as it was; each of the
\* other five functions returns the input document unchanged, and
\* delete_rows_with_exactly_one_seat returns the count 0 with it.
C5_LookupFailure ==
    (last.op # "none" /\ ~Present)
    => /\ doc = last.seatmap
       /\ IF last.op = "insert_rows"
          THEN last.exc = "KeyError"
          ELSE last.exc = "none" /\ last.ret = last.seatmap /\ last.deleted = 0

\* insert_rows was called with new rows for a section the document lacks
C5_Witness ==
    /\ last.op = "insert_rows"
    /\ ~Present
    /\ last.args.new_rows # <<>>
    /\ last.exc = "KeyError"

\* a row of the target section carries one of the labels passed
LabelsHit ==
    \E i \in 1..Len(InRows), j \in 1..Len(last.args.labels) :
        EqIgnoreCase(InRows[i].v.row_index, last.args.labels[j])

\* the call has nothing to act on in a section the document has
NoTarget ==
    \/ last.op \in {"relabel_rows", "reverse_section_seat_order_selective"} /\ ~LabelsHit
    \/ last.op = "delete_rows_with_exactly_one_seat"
         /\ \A i \in 1..Len(InRows) : Len(InRows[i].v.seats) # 1
    \/ last.op = "update_section_meta"
         /\ last.args.new_name = None /\ last.args.new_align = None
    \/ last.op = "insert_rows" /\ last.args.new_rows = <<>>

\* C6: a call whose target matches nothing returns a document equal to its
\* input.  Stated for the calls on a section the document has (an empty or
\* unmatched label list, no single-seat row, both meta arguments unspecified,
\* empty new_rows); the absent section is the case of C5.
C6_NoOpLaw ==
    (last.op # "none" /\ Present /\ NoTarget)
    => last.exc = "none" /\ last.ret = last.seatmap

-----------------------------------------------------------------------------
(* Properties of relabel_rows *)

Targeted(rdata) ==
    \E j \in 1..Len(last.args.labels) : EqIgnoreCase(rdata.row_index, last.args.labels[j])

\* the seat's number starts with the row's label, case aside
CarriesLabel(number, label) ==
    /\ Len(label) <= Len(number)
    /\ EqIgnoreCase(SubSeq(number, 1, Len(label)), label)

\* out is row in under its new label
Relabelled(in, out) ==
    LET label == last.args.new_prefix \o in.row_index
    IN  /\ out.row_index = label
        /\ out.row_id = in.row_id
        /\ out.row_price = in.row_price
        /\ Len(out.seats) = Len(in.seats)
        /\ \A i \in 1..Len(in.seats) :
              LET old == in.seats[i].v
                  new == out.seats[i].v
              IN  /\ out.seats[i].k = in.seats[i].k
                  /\ IF CarriesLabel(old.number, in.row_index)
                     THEN new = [old EXCEPT !.number =
                                    label \o SubSeq(old.number, Len(in.row_index) + 1,
                                                    Len(old.number))]
                     ELSE new = old

\* C7: relabel_rows gives every row whose label matches a target, case aside,
\* the label new_prefix + label, and every seat of it whose number starts with
\* the old label the number new label + remainder; other seats, other rows,
\* row order, seat order and all ids stay as they were.
C7_Relabel ==
    (Returned("relabel_rows") /\ last.args.labels # <<>>)
    => /\ OnlyRowsChange
       /\ Len(OutRows) = Len(InRows)
       /\ \A i \in 1..Len(InRows) :
             /\ OutRows[i].k = InRows[i].k
             /\ IF Targeted(InRows[i].v)
                THEN Relabelled(InRows[i].v, OutRows[i].v)
                ELSE OutRows[i].v = InRows[i].v

\* a relabelled row with a seat that was renamed though its case differs from
\* the row's, beside a row that was not targeted
C7_Witness ==
    /\ Returned("relabel_rows")
    /\ \E i \in 1..Len(InRows) :
          /\ Targeted(InRows[i].v)
          /\ \E k \in 1..Len(InRows[i].v.seats) :
                LET number == InRows[i].v.seats[k].v.number
                IN  /\ CarriesLabel(number, InRows[i].v.row_index)
                    /\ ~startswith(number, InRows[i].v.row_index)
                    /\ OutRows[i].v.seats[k].v.number # number
    /\ \E i \in 1..Len(InRows) : ~Targeted(InRows[i].v) /\ OutRows[i] = InRows[i]

-----------------------------------------------------------------------------
(* Properties of reverse_section_seat_order_selective *)

\* the label is letters followed by digits, or digits alone
Numbered(s) ==
    /\ s # <<>>
    /\ IsDigit(s[Len(s)])
    /\ \A i \in 1..(Len(s) - 1) : IsAlpha(s[i]) \/ (IsDigit(s[i]) /\ IsDigit(s[i + 1]))
    /\ \A i \in 1..Len(s) : IsAlpha(s[i]) \/ IsDigit(s[i])

LettersOf(s) == upper(SelectSeq(s, IsAlpha))

NumberOf(s) == ParseInt(SelectSeq(s, IsDigit))

\* s comes before t in natural order: by letters, then by number
NaturalBefore(s, t) ==
    \/ StrLess(LettersOf(s), LettersOf(t))
    \/ LettersOf(s) = LettersOf(t) /\ NumberOf(s) < NumberOf(t)

\* C8: reverse_section_seat_order_selective leaves each selected row with the
\* seats it had, numbers unaltered, in the reverse of natural order (letters
\* alphabetically, then the numeric suffix as a number), whatever their order
\* was; rows not selected, and the order of rows, stay as they were.
C8_ReverseSeats ==
    (Returned("reverse_section_seat_order_selective") /\ last.args.labels # <<>>)
    => /\ OnlyRowsChange
       /\ Len(OutRows) = Len(InRows)
       /\ \A i \in 1..Len(InRows) :
             /\ OutRows[i].k = InRows[i].k
             /\ IF Targeted(InRows[i].v)
                THEN LET seats == OutRows[i].v.seats
                     IN  /\ OutRows[i].v = [InRows[i].v EXCEPT !.seats = seats]
                         /\ Len(seats) = Len(InRows[i].v.seats)
                         /\ Entries(seats) = Entries(InRows[i].v.seats)
                         /\ \A a, b \in 1..Len(seats) :
                               (a < b /\ Numbered(seats[a].v.number)
                                      /\ Numbered(seats[b].v.number))
                               => ~NaturalBefore(seats[a].v.number, seats[b].v.number)
                ELSE OutRows[i].v = InRows[i].v

SeatNumbers(rdata) == [i \in 1..Len(rdata.seats) |-> rdata.seats[i].v.number]

\* row A held A1, A10, A2 in that order and now holds A10, A2, A1
C8_Witness ==
    /\ Returned("reverse_section_seat_order_selective")
    /\ \E i \in 1..Len(InRows) :
          /\ SeatNumbers(InRows[i].v) = << <<"A","1">>, <<"A","1","0">>, <<"A","2">> >>
          /\ SeatNumbers(OutRows[i].v) = << <<"A","1","0">>, <<"A","2">>, <<"A","1">> >>

-----------------------------------------------------------------------------
(* Properties of delete_rows_with_exactly_one_seat *)

NotSingle(entry) == Len(entry.v.seats) # 1

\* C9: the result holds exactly the rows of the input that do not have exactly
\* one seat, in their order and with their contents; deleted_count is the
\* number of rows before minus the number after, the number of single-seat
\* rows; a second call on the result deletes nothing and returns 0.
C9_DeleteSingleSeatRows ==
    Returned("delete_rows_with_exactly_one_seat")
    => /\ OnlyRowsChange
       /\ OutRows = SelectSeq(InRows, NotSingle)
       /\ last.deleted = Len(InRows) - Len(OutRows)
       /\ last.deleted = Cardinality({i \in 1..Len(InRows) : ~NotSingle(InRows[i])})
       /\ LET again == delete_rows_with_exactly_one_seat(last.ret, last.args.section_id)
          IN  again.deleted = 0 /\ again.ret = last.ret

\* rows with seat counts 1, 1, 2, 1: three rows go, deleted_count is 3
C9_Witness ==
    /\ Returned("delete_rows_with_exactly_one_seat")
    /\ [i \in 1..Len(InRows) |-> Len(InRows[i].v.seats)] = <<1, 1, 2, 1>>
    /\ Len(OutRows) = 1
    /\ last.deleted = 3

-----------------------------------------------------------------------------
(* Properties of update_section_meta *)

InSection == last.seatmap[last.args.section_id]

OutSection == last.ret[last.args.section_id]

\* only section_name and align of the target section may differ
OnlyMetaChanges ==
    /\ DOMAIN last.ret = DOMAIN last.seatmap
    /\ \A s \in DOMAIN last.seatmap \ {last.args.section_id} : last.ret[s] = last.seatmap[s]
    /\ OutSection.rows = InSection.rows
    /\ OutSection.price = InSection.price

\* C10 as claimed: section_name (align) is set only if the argument is
\* non-empty; unspecified or the empty string, it leaves the field untouched.
C10_EmptyLeavesUntouched ==
    Returned("update_section_meta")
    => /\ OnlyMetaChanges
       /\ (last.args.new_name \in {None, <<"">>}
             => OutSection.section_name = InSection.section_name)
       /\ (last.args.new_align \in {None, <<"">>}
             => OutSection.align = InSection.align)

\* C10, amended: section_name (align) is set to the argument whenever one is
\* passed, the empty string included; only an unspecified argument (None)
\* leaves the field untouched; rows, every other field and every other
\* section are never changed.
C10_UpdateMeta ==
    Returned("update_section_meta")
    => /\ OnlyMetaChanges
       /\ OutSection.section_name =
             IF last.args.new_name = None THEN InSection.section_name
             ELSE last.args.new_name[1]
       /\ OutSection.align =
             IF last.args.new_align = None THEN InSection.align
             ELSE last.args.new_align[1]

\* an empty new_name replaced a name, while align, unspecified, stayed
C10_Witness ==
    /\ Returned("update_section_meta")
    /\ last.args.new_name = <<"">>
    /\ last.args.new_align = None
    /\ InSection.section_name # ""
    /\ OutSection.section_name = ""
    /\ OutSection.align = InSection.align

-----------------------------------------------------------------------------
(* Properties of the seat labels of a new row *)

\* the anomalies that carry a label, as typed
Kept == anomalies(form.typed)

DistinctPositions ==
    \A i, j \in 1..Len(Kept) : i # j => Kept[i].ano_between # Kept[j].ano_between

\* the n-th seat number in the typed direction
TypedNumber(n) ==
    IF form.first <= form.last THEN form.first + (n - 1) ELSE form.first - (n - 1)

TypedCount ==
    IF form.first <= form.last THEN form.last - form.first + 1
    ELSE form.first - form.last + 1

\* the labels of the anomalies typed for seat number n
AnomaliesAt(n) ==
    {Kept[i].ano_label : i \in {j \in 1..Len(Kept) : Kept[j].ano_between = n}}

\* the base label of the n-th seat and, right after it, its anomaly
RECURSIVE Spliced(_)
Spliced(n) ==
    IF n > TypedCount THEN <<>>
    ELSE <<upper(form.letter) \o FormatInt(TypedNumber(n))>>
         \o (IF AnomaliesAt(TypedNumber(n)) = {} THEN <<>>
             ELSE <<CHOOSE x \in AnomaliesAt(TypedNumber(n)) : TRUE>>)
         \o Spliced(n + 1)

BuiltLabels == form.new_rows[1].labels

\* C11: for a row label and anomalies at distinct positions, the labels of the
\* new row are label+n for n from first to last in the typed direction, each
\* followed immediately by the anomaly typed for that number if there is one;
\* an anomaly whose position is no seat number of the row is dropped; this
\* for ascending and descending ranges and for any number of anomalies.
C11_SeatLabels ==
    (form.built /\ form.letter # <<>> /\ DistinctPositions)
    => /\ Len(form.new_rows) = 1
       /\ form.new_rows[1].index = upper(form.letter)
       /\ BuiltLabels = Spliced(1)

\* The same for the rows typed first <= last.
SeatLabelsAscending ==
    (form.built /\ form.letter # <<>> /\ DistinctPositions /\ form.first <= form.last)
    => BuiltLabels = Spliced(1)

\* The same for the rows with at most one anomaly that carries a label.
SeatLabelsOneAnomaly ==
    (form.built /\ form.letter # <<>> /\ Len(Kept) <= 1)
    => BuiltLabels = Spliced(1)

-----------------------------------------------------------------------------
(* Properties of a session *)

Pressed == last.op \in {"relabel", "update_plan"}

\* C12: every press of "Apply relabel to selected rows" or "Update Plan" is
\* applied to the document the press before it stored in
\* session_state["updated_map"], and stores its own result there, so that the
\* stored document carries every edit of the session.
C12_SessionThreaded ==
    (Pressed /\ last.exc = "none")
    => /\ session.has_updated_map
       /\ session.updated_map = last.ret
       /\ (last.stored.has_updated_map => last.seatmap = last.stored.updated_map)

\* Every handler starts from the uploaded file and stores what it returns.
HandlersStartFromUpload ==
    Pressed => /\ last.seatmap = doc
               /\ (last.exc = "none" => session.updated_map = last.ret)

\* a row label of the section that starts with the prefix of the relabel
HasPrefixedRow(seatmap, section_id) ==
    \E i \in 1..Len(seatmap[section_id].rows), p \in PrefixArgs :
        startswith(seatmap[section_id].rows[i].v.row_index, p)

\* No Update Plan stores a document without the prefix a relabel gave a row
\* of the same section in the document stored before.
RelabelSurvivesUpdatePlan ==
    (last.op = "update_plan" /\ last.stored.has_updated_map
       /\ HasPrefixedRow(last.stored.updated_map, last.args.section_id))
    => HasPrefixedRow(session.updated_map, last.args.section_id)

-----------------------------------------------------------------------------
(* Properties of reverse_section_seat_order_selective on relabelled rows *)

\* the seat numbers of the row that carry prefix p before a label of letters
\* and digits, with the prefix taken off
Suffix(number, p) == SliceFrom(number, Len(p))

PrefixedNumbered(number, p) == startswith(number, p) /\ Numbered(Suffix(number, p))

\* C13: once relabel_rows has prefixed a row, reverse_section_seat_order_selective
\* on that row, selected by its new label, leaves its seats in descending order
\* of the label after the prefix: letters first, then the numeric suffix
\* compared as a number ("(RV) A10", "(RV) A2", "(RV) A1").
C13_NaturalOrderAfterRelabel ==
    (Returned("reverse_section_seat_order_selective") /\ last.args.labels # <<>>)
    => \A i \in 1..Len(InRows), p \in PrefixArgs :
          (Targeted(InRows[i].v) /\ startswith(InRows[i].v.row_index, p))
          => LET seats == OutRows[i].v.seats
             IN  \A a, b \in 1..Len(seats) :
                    (a < b /\ PrefixedNumbered(seats[a].v.number, p)
                           /\ PrefixedNumbered(seats[b].v.number, p))
                    => ~NaturalBefore(Suffix(seats[a].v.number, p),
                                      Suffix(seats[b].v.number, p))

\* What the code does with such a row: the seats end in descending order of
\* the whole label compared as upper-case text, "(RV) A2" before "(RV) A10".
PrefixedSeatsInTextOrder ==
    (Returned("reverse_section_seat_order_selective") /\ last.args.labels # <<>>)
    => \A i \in 1..Len(InRows), p \in PrefixArgs :
          (Targeted(InRows[i].v) /\ startswith(InRows[i].v.row_index, p))
          => LET seats == OutRows[i].v.seats
             IN  \A a, b \in 1..Len(seats) :
                    (a < b /\ startswith(seats[a].v.number, p)
                           /\ startswith(seats[b].v.number, p))
                    => ~StrLess(upper(seats[a].v.number), upper(seats[b].v.number))

====
